---- MODULE Spec2Model ----
(***************************************************************************)
(* Station interaction, Cabin dialogue state machine and Progress Store of *)
(* the floating-island environment (IslandInteractionManager and the       *)
(* islandMain bootstrap).  Every method of the source is an operator from  *)
(* a program state (a record S) to the state it leaves behind; every DOM   *)
(* event, timer callback and page load is one action.                      *)
(***************************************************************************)
EXTENDS Integers, Sequences, FiniteSets, Bags, TLC

VARIABLES
    storage,     \* localStorage: [progress, visited] (durable across loads)
    page,        \* "ok" | "error" (catch block ran) | "unloaded" (navigated away)
    win,         \* window globals: [api, completionShown]
    controls,    \* world.controls.enabled
    mgr,         \* IslandInteractionManager fields
    ui,          \* DOM state the handlers read and write
    timers,      \* pending setTimeout callbacks, in firing order
    thrown,      \* exception raised by the last handler ("none" if it returned)
    lastEvent,   \* the last event handled: [op, arg, from, afterOpen]
    budget,      \* [opens]: overlays opened so far (bounds the model only)
    worlds       \* the crystal garden and diorama pages run beside the island page
                 \* on a copy of its storage (the empty function when they are not)

vars == <<storage, page, win, controls, mgr, ui, timers, thrown, lastEvent, budget, worlds>>

----------------------------------------------------------------------------
(* Bounds of the model *)

MaxOpens == 2        \* overlays opened in one run
MaxTimers == 1       \* answer-delay callbacks pending at once
MaxStep == 6         \* dialogueStep beyond which the continue control is left alone

----------------------------------------------------------------------------
(* Static data *)

TOTAL_STATIONS == 18
crystal_TOTAL_STATIONS == 18
diorama_TOTAL_STATIONS == 18
NumCabins == 5
NumFires == 6
NumOptions == 2     \* options of a math challenge (ElderVisits.js)

NoVisit == 0 - 1     \* null for currentVisit / captured ids
Unset == 0 - 1       \* a DOM value never written, or written as NaN/undefined

Cabins == 0 .. (NumCabins - 1)
Fires == 0 .. (NumFires - 1)
Options == 1 .. NumOptions

Popups == {"fire", "herb", "logpile", "garden", "cart", "fishing", "memorial"}
Overlays == Popups \cup {"dialogue"}

\* userData.type of a zone -> the overlay / markVisited category it drives
ZoneTypes == {"cabin", "fireplace", "herb", "logpile", "garden", "cart", "fishing", "memorial"}
PopupOf(type) == IF type = "fireplace" THEN "fire" ELSE type

\* the zones pushed to this.interactables
setupInteractables ==
    [type : {"cabin"}, id : Cabins] \cup
    [type : {"fireplace"}, id : Fires] \cup
    [type : ZoneTypes \ {"cabin", "fireplace"}, id : {0}]

NoHit == [type |-> "none", id |-> NoVisit]

\* ElderVisits.js is not part of the sources at hand: one ElderVisit per cabin,
\* looked up by index, whose id is the localId, with one to three greeting
\* lines and a math challenge with exactly one correct option among two.
ElderVisitId(k) == k
GreetingLen(k) == 1 + (k % 3)
OptionCorrect(k, o) == o = 1 + (k % NumOptions)

----------------------------------------------------------------------------
(* Durable storage values *)

\* `${stationType}-${stationId}`
StationKey(stationType, stationId) == stationType \o "-" \o ToString(stationId)

\* every key the interaction manager can record, in registration order
RegistryKeys ==
    [i \in 1 .. NumCabins |-> StationKey("cabin", i)] \o
    [i \in 1 .. NumFires |-> StationKey("fire", i - 1)] \o
    << StationKey("herb", 0), StationKey("logpile", 0), StationKey("garden", 0),
       StationKey("cart", 0), StationKey("fishing", 0), StationKey("memorial", 0) >>

\* markVisited calls made through window.metisPrairieProgress by other scripts
ApiCalls == { <<"fire", 2>>, <<"fire", NumFires>>, <<"cabin", 1>>, <<"memorial", 0>> }

\* A stored progress value.  The text of a JSON array is kept as the bag of its
\* elements: includes, push and length, the only uses the code makes of the
\* parsed array, do not depend on the order of the elements.
Absent == [kind |-> "absent", items |-> EmptyBag]       \* getItem returns null
CorruptText == [kind |-> "corrupt", items |-> EmptyBag] \* not parseable as JSON
ObjectText == [kind |-> "object", items |-> EmptyBag]   \* valid JSON, not an array: "{}"
ArrayText(items) == [kind |-> "array", items |-> items]  \* JSON.stringify(items)

Range(s) == { s[i] : i \in DOMAIN s }
ArrayOf(s) == SetToBag(Range(s))

\* what earlier sessions (or a damaged store) can have left behind: a first
\* visit has neither key; a returning visitor has the flag and any progress value
AllButLast(s) == SubSeq(s, 1, Len(s) - 1)
InitialStorage ==
    { [progress |-> Absent, visited |-> FALSE] } \cup
    [progress : { Absent, CorruptText, ObjectText, ArrayText(ArrayOf(AllButLast(RegistryKeys))) },
     visited : {TRUE}]
\* the stores the Progress Store API is exercised on
InitialStoreStorage ==
    InitialStorage \cup
    [progress : { ArrayText(EmptyBag), ArrayText(ArrayOf(RegistryKeys)) }, visited : {TRUE}]

includes(items, key) == BagIn(key, items)
push(items, key) == items (+) SetToBag({key})
length(items) == BagCardinality(items)

----------------------------------------------------------------------------
(* Progress Store (islandMain.js) *)

Throw(S, e) == [S EXCEPT !.thrown = e]
Failed(S) == S.thrown # "none"

\* the value getVisitedStations returns, or the exception JSON.parse raises
getVisitedStations(S) ==
    LET saved == S.storage.progress IN
    CASE saved.kind = "absent"  -> [thrown |-> "none", isArray |-> TRUE, items |-> EmptyBag]
      [] saved.kind = "array"   -> [thrown |-> "none", isArray |-> TRUE, items |-> saved.items]
      [] saved.kind = "object"  -> [thrown |-> "none", isArray |-> FALSE, items |-> EmptyBag]
      [] saved.kind = "corrupt" -> [thrown |-> "SyntaxError", isArray |-> FALSE, items |-> EmptyBag]

\* showCompletionMessage without its window.completionShown latch
showCompletionMessageUnlatched(S) ==
    [S EXCEPT !.win.completionShown = TRUE,
              !.ui.noticeVisible = TRUE,
              !.ui.noticesShown = @ + 1]

showCompletionMessage(S) ==
    IF S.win.completionShown THEN S
    ELSE [S EXCEPT !.win.completionShown = TRUE,
                   !.ui.noticeVisible = TRUE,
                   !.ui.noticesShown = @ + 1]

updateProgressUI(S) ==
    LET visited == getVisitedStations(S) IN
    IF visited.thrown # "none" THEN Throw(S, visited.thrown)
    ELSE IF ~visited.isArray
    THEN \* count is undefined, percentage NaN: the width assignment is dropped,
         \* the count text becomes empty, undefined >= 18 is false
         [S EXCEPT !.ui.progressCount = Unset]
    ELSE LET count == length(visited.items)
             S1 == [S EXCEPT !.ui.progressBar = << count * 100, TOTAL_STATIONS >>,
                             !.ui.progressCount = count]
         IN IF count >= TOTAL_STATIONS THEN showCompletionMessage(S1) ELSE S1

\* a markStationVisited that stores the new key alone
markStationVisitedOverwriting(S, stationType, stationId) ==
    LET key == StationKey(stationType, stationId)
        visited == getVisitedStations(S)
    IN  IF visited.thrown # "none" THEN Throw(S, visited.thrown)
        ELSE IF ~visited.isArray THEN Throw(S, "TypeError")
        ELSE IF includes(visited.items, key) THEN S
        ELSE updateProgressUI(
                [S EXCEPT !.storage.progress = ArrayText(push(EmptyBag, key))])

markStationVisited(S, stationType, stationId) ==
    LET key == StationKey(stationType, stationId)
        visited == getVisitedStations(S)
    IN  IF visited.thrown # "none" THEN Throw(S, visited.thrown)
        ELSE IF ~visited.isArray THEN Throw(S, "TypeError")  \* visited.includes is not a function
        ELSE IF includes(visited.items, key) THEN S
        ELSE updateProgressUI(
                [S EXCEPT !.storage.progress = ArrayText(push(visited.items, key))])

\* window.metisPrairieProgress.markVisited behind its `if (window.metisPrairieProgress)` guard
markVisitedIfInstalled(S, stationType, stationId) ==
    IF S.win.api THEN markStationVisited(S, stationType, stationId) ELSE S

----------------------------------------------------------------------------
(* IslandInteractionManager: Elder visit methods *)

\* a removeWrong callback whose button left the page can change nothing any more
Detach(ts) == [i \in DOMAIN ts |-> [ts[i] EXCEPT !.attached = FALSE]]

Line(kind, visit, line) == [kind |-> kind, visit |-> visit, line |-> line]
NoText == Line("", NoVisit, 0)

displayCurrentStep(S) ==
    IF S.mgr.dialogueStep < GreetingLen(S.mgr.currentVisit)
    THEN [S EXCEPT !.ui.storyText = Line("greeting", S.mgr.currentVisit, S.mgr.dialogueStep),
                   !.ui.continueBtn.text = "Continue"]
    ELSE S

\* closeDialogue without its `this.currentVisit = null`
closeDialogueKeepingVisit(S) ==
    [S EXCEPT !.ui.display["dialogue"] = "none",
              !.mgr.isDialogueOpen = FALSE,
              !.controls = TRUE]

\* closeDialogue crediting the visit it abandons
closeDialogueCrediting(S) ==
    [S EXCEPT !.ui.display["dialogue"] = "none",
              !.mgr.isDialogueOpen = FALSE,
              !.mgr.completedVisits =
                  IF S.mgr.currentVisit = NoVisit THEN @ ELSE @ \cup {ElderVisitId(S.mgr.currentVisit)},
              !.mgr.currentVisit = NoVisit,
              !.controls = TRUE]

closeDialogue(S) ==
    [S EXCEPT !.ui.display["dialogue"] = "none",
              !.mgr.isDialogueOpen = FALSE,
              !.mgr.currentVisit = NoVisit,
              !.controls = TRUE]

\* startVisit without its completedVisits.has(visitId) branch
startVisitReplaying(S, visitId) ==
    LET S1 == [S EXCEPT !.mgr.currentVisit = visitId,
                        !.mgr.currentCabinNumber = visitId + 1,
                        !.mgr.dialogueStep = 0,
                        !.mgr.isDialogueOpen = TRUE,
                        !.controls = FALSE,
                        !.ui.mathSection = "none",
                        !.ui.continueBtn.display = "block"]
        S2 == [displayCurrentStep(S1) EXCEPT !.ui.continueBtn.onclick = "advanceDialogue"]
    IN  [S2 EXCEPT !.ui.display["dialogue"] = "flex"]

startVisit(S, visitId) ==
    LET S1 == [S EXCEPT !.mgr.currentVisit = visitId,
                        !.mgr.currentCabinNumber = visitId + 1,
                        !.mgr.dialogueStep = 0,
                        !.mgr.isDialogueOpen = TRUE,
                        !.controls = FALSE,
                        !.ui.mathSection = "none",
                        !.ui.continueBtn.display = "block"]
        S2 == IF visitId \in S1.mgr.completedVisits
              THEN [S1 EXCEPT !.ui.storyText = Line("welcomeBack", NoVisit, 0),
                              !.ui.continueBtn.text = "Leave",
                              !.ui.continueBtn.onclick = "closeDialogue"]
              ELSE [displayCurrentStep(S1) EXCEPT !.ui.continueBtn.onclick = "advanceDialogue"]
    IN  [S2 EXCEPT !.ui.display["dialogue"] = "flex"]

\* optionsGrid.innerHTML = '' then one button per option: the buttons that
\* pending timers still hold are no longer part of the page
showMathQuestion(S) ==
    [S EXCEPT !.ui.storyText = NoText,
              !.ui.mathSection = "block",
              !.ui.continueBtn.display = "none",
              !.ui.optionsGrid = [visit |-> S.mgr.currentVisit, marked |-> {}],
              !.timers = Detach(S.timers)]

advanceDialogue(S) ==
    LET S1 == [S EXCEPT !.mgr.dialogueStep = @ + 1] IN
    IF S1.mgr.currentVisit = NoVisit THEN Throw(S1, "TypeError")
    ELSE IF S1.mgr.dialogueStep < GreetingLen(S1.mgr.currentVisit) THEN displayCurrentStep(S1)
    ELSE IF S1.mgr.dialogueStep = GreetingLen(S1.mgr.currentVisit) THEN showMathQuestion(S1)
    ELSE S1

SuccessTimer == [kind |-> "showSuccess", opt |-> 0, attached |-> FALSE]
WrongTimer(opt) == [kind |-> "removeWrong", opt |-> opt, attached |-> TRUE]

\* btn.onclick of the option button `opt` of the rendered grid
handleAnswer(S, opt) ==
    LET isCorrect == OptionCorrect(S.ui.optionsGrid.visit, opt)
        S1 == [S EXCEPT !.ui.optionsGrid.marked = @ \cup {opt}]
    IN  IF isCorrect
        THEN [S1 EXCEPT !.timers = Append(@, SuccessTimer)]
        ELSE [S1 EXCEPT !.timers = Append(@, WrongTimer(opt))]

showSuccess(S) ==
    LET S1 == [S EXCEPT !.ui.mathSection = "none"] IN
    IF S1.mgr.currentVisit = NoVisit THEN Throw(S1, "TypeError")  \* null.math
    ELSE [S1 EXCEPT !.ui.storyText = Line("success", S1.mgr.currentVisit, 0),
                    !.ui.continueBtn.display = "block",
                    !.ui.continueBtn.text = "Thank you",
                    !.ui.continueBtn.onclick = "completeVisit"]

\* a completeVisit that records the key without completedVisits.add
completeVisitUncredited(S) ==
    IF S.mgr.currentVisit = NoVisit THEN Throw(S, "TypeError")
    ELSE LET S2 == markVisitedIfInstalled(S, "cabin", S.mgr.currentCabinNumber)
         IN  IF Failed(S2) THEN S2 ELSE closeDialogue(S2)

\* a completeVisit that credits the cabin number instead of the visit id
completeVisitByCabinNumber(S) ==
    IF S.mgr.currentVisit = NoVisit THEN Throw(S, "TypeError")
    ELSE LET S1 == [S EXCEPT !.mgr.completedVisits = @ \cup {S.mgr.currentCabinNumber}]
             S2 == markVisitedIfInstalled(S1, "cabin", S1.mgr.currentCabinNumber)
         IN  IF Failed(S2) THEN S2 ELSE closeDialogue(S2)

completeVisit(S) ==
    IF S.mgr.currentVisit = NoVisit THEN Throw(S, "TypeError")  \* null.id
    ELSE LET S1 == [S EXCEPT !.mgr.completedVisits = @ \cup {ElderVisitId(S.mgr.currentVisit)}]
             S2 == markVisitedIfInstalled(S1, "cabin", S1.mgr.currentCabinNumber)
         IN  IF Failed(S2) THEN S2 ELSE closeDialogue(S2)

\* a callback that leaves the mark where it is
removeWrongKeeping(S, t) == S

\* setTimeout(() => btn.classList.remove('wrong'), 500)
removeWrong(S, t) ==
    IF t.attached THEN [S EXCEPT !.ui.optionsGrid.marked = @ \ {t.opt}] ELSE S

----------------------------------------------------------------------------
(* IslandInteractionManager: experience popups *)

\* an open that already records the station
openPopupRecording(S, p, id) ==
    [markVisitedIfInstalled(S, p, id) EXCEPT !.controls = FALSE,
                                             !.ui.exploreOnclick[p] = id,
                                             !.ui.display[p] = "flex"]

\* openFireplacePopup .. openMemorialPopup
openPopup(S, p, id) ==
    [S EXCEPT !.controls = FALSE,
              !.ui.exploreOnclick[p] = id,
              !.ui.display[p] = "flex"]

\* closeFireplacePopup .. closeMemorialPopup
closePopup(S, p) ==
    [S EXCEPT !.ui.display[p] = "none", !.controls = TRUE]

\* xxxExploreBtn.onclick: a throwing markVisited leaves the page where it is
exploreOnclick(S, p) ==
    LET S1 == markVisitedIfInstalled(S, p, S.ui.exploreOnclick[p]) IN
    IF Failed(S1) THEN S1 ELSE [S1 EXCEPT !.page = "unloaded"]

AnyPopupOpen(S) == \E p \in Popups : S.ui.display[p] = "flex"

\* a handler that reads intersects[0] without the intersects.length check
onCanvasClickUnchecked(S, hit) ==
    IF S.mgr.isDialogueOpen THEN S
    ELSE IF AnyPopupOpen(S) THEN S
    ELSE IF hit = NoHit THEN Throw(S, "TypeError")
    ELSE IF hit.type = "cabin" THEN startVisit(S, hit.id)
    ELSE openPopup(S, PopupOf(hit.type), hit.id)

\* a picking gate that looks at isDialogueOpen only
onCanvasClickDialogueGateOnly(S, hit) ==
    IF S.mgr.isDialogueOpen THEN S
    ELSE IF hit = NoHit THEN S
    ELSE IF hit.type = "cabin" THEN startVisit(S, hit.id)
    ELSE openPopup(S, PopupOf(hit.type), hit.id)

\* a picking gate that looks at the popups only
onCanvasClickPopupGateOnly(S, hit) ==
    IF AnyPopupOpen(S) THEN S
    ELSE IF hit = NoHit THEN S
    ELSE IF hit.type = "cabin" THEN startVisit(S, hit.id)
    ELSE openPopup(S, PopupOf(hit.type), hit.id)

onCanvasClick(S, hit) ==
    IF S.mgr.isDialogueOpen THEN S
    ELSE IF AnyPopupOpen(S) THEN S
    ELSE IF hit = NoHit THEN S
    ELSE IF hit.type = "cabin" THEN startVisit(S, hit.id)
    ELSE openPopup(S, PopupOf(hit.type), hit.id)

RECURSIVE closeAllPopups(_, _)
closeAllPopups(S, ps) ==
    IF ps = {} THEN S
    ELSE LET p == CHOOSE q \in ps : TRUE IN closeAllPopups(closePopup(S, p), ps \ {p})

\* an Escape handler that closes the Cabin dialogue only
onEscapeDialogueOnly(S) == closeDialogue(S)

\* document keydown with e.code === 'Escape'
onEscape(S) == closeAllPopups(closeDialogue(S), Popups)

----------------------------------------------------------------------------
(* Page load (islandMain.js try/catch block) *)

\* the constructor's field values and the DOM as createUI leaves it
FreshManager == [alive |-> FALSE, currentVisit |-> NoVisit, currentCabinNumber |-> 0,
                 dialogueStep |-> 0, isDialogueOpen |-> FALSE, completedVisits |-> {}]

FreshUI == [display |-> [o \in Overlays |-> "none"],
            mathSection |-> "none",
            continueBtn |-> [display |-> "", onclick |-> "null", text |-> "Continue"],
            storyText |-> NoText,
            optionsGrid |-> [visit |-> NoVisit, marked |-> {}],
            exploreOnclick |-> [p \in Popups |-> NoVisit],
            welcomeHidden |-> TRUE,
            progressBar |-> << Unset, TOTAL_STATIONS >>,
            progressCount |-> Unset,
            noticeVisible |-> FALSE,
            noticesShown |-> 0,
            errorDiv |-> FALSE]

FreshPage(store) ==
    [storage |-> store, page |-> "ok", win |-> [api |-> FALSE, completionShown |-> FALSE],
     controls |-> TRUE, mgr |-> FreshManager, ui |-> FreshUI, timers |-> << >>,
     thrown |-> "none"]

\* catch (error): the error is logged and shown in an error box
showInitError(S) == [S EXCEPT !.page = "error", !.ui.errorDiv = TRUE, !.thrown = "none"]

welcomeGlue(S) ==
    IF ~S.storage.visited
    THEN [S EXCEPT !.ui.welcomeHidden = FALSE, !.controls = FALSE]
    ELSE S

\* worldFails: new IslandWorld(...) throws (no rendering context)
Bootstrap(store, worldFails) ==
    LET S0 == FreshPage(store) IN
    IF worldFails THEN showInitError(S0)
    ELSE LET S1 == [S0 EXCEPT !.mgr.alive = TRUE]
             S2 == welcomeGlue(S1)
             S3 == updateProgressUI(S2)
         IN  IF Failed(S3) THEN showInitError(S3)
             ELSE [S3 EXCEPT !.win.api = TRUE]

----------------------------------------------------------------------------
(* The crystal garden page (main script of part_000) and the diorama page   *)
(* (main script of part_002): each declares its own Progress Store          *)

crystal_getVisitedStations(S) ==
    LET saved == S.storage.progress IN
    CASE saved.kind = "absent"  -> [thrown |-> "none", isArray |-> TRUE, items |-> EmptyBag]
      [] saved.kind = "array"   -> [thrown |-> "none", isArray |-> TRUE, items |-> saved.items]
      [] saved.kind = "object"  -> [thrown |-> "none", isArray |-> FALSE, items |-> EmptyBag]
      [] saved.kind = "corrupt" -> [thrown |-> "SyntaxError", isArray |-> FALSE, items |-> EmptyBag]

\* sets the bar and the count and stops there
crystal_updateProgressUI(S) ==
    LET visited == crystal_getVisitedStations(S) IN
    IF visited.thrown # "none" THEN Throw(S, visited.thrown)
    ELSE IF ~visited.isArray THEN [S EXCEPT !.ui.progressCount = Unset]
    ELSE LET count == length(visited.items)
         IN  [S EXCEPT !.ui.progressBar = << count * 100, crystal_TOTAL_STATIONS >>,
                       !.ui.progressCount = count]

crystal_markStationVisited(S, stationType, stationId) ==
    LET key == StationKey(stationType, stationId)
        visited == crystal_getVisitedStations(S)
    IN  IF visited.thrown # "none" THEN Throw(S, visited.thrown)
        ELSE IF ~visited.isArray THEN Throw(S, "TypeError")
        ELSE IF includes(visited.items, key) THEN S
        ELSE crystal_updateProgressUI(
                [S EXCEPT !.storage.progress = ArrayText(push(visited.items, key))])

\* worldFails: new CrystalWorld(...) throws
crystal_Bootstrap(store, worldFails) ==
    LET S0 == FreshPage(store) IN
    IF worldFails THEN showInitError(S0)
    ELSE LET S1 == [S0 EXCEPT !.mgr.alive = TRUE]
             S2 == welcomeGlue(S1)
             S3 == crystal_updateProgressUI(S2)
         IN  IF Failed(S3) THEN showInitError(S3)
             ELSE [S3 EXCEPT !.win.api = TRUE]

diorama_getVisitedStations(S) ==
    LET saved == S.storage.progress IN
    CASE saved.kind = "absent"  -> [thrown |-> "none", isArray |-> TRUE, items |-> EmptyBag]
      [] saved.kind = "array"   -> [thrown |-> "none", isArray |-> TRUE, items |-> saved.items]
      [] saved.kind = "object"  -> [thrown |-> "none", isArray |-> FALSE, items |-> EmptyBag]
      [] saved.kind = "corrupt" -> [thrown |-> "SyntaxError", isArray |-> FALSE, items |-> EmptyBag]

\* sets the bar and the count and stops there
diorama_updateProgressUI(S) ==
    LET visited == diorama_getVisitedStations(S) IN
    IF visited.thrown # "none" THEN Throw(S, visited.thrown)
    ELSE IF ~visited.isArray THEN [S EXCEPT !.ui.progressCount = Unset]
    ELSE LET count == length(visited.items)
         IN  [S EXCEPT !.ui.progressBar = << count * 100, diorama_TOTAL_STATIONS >>,
                       !.ui.progressCount = count]

diorama_markStationVisited(S, stationType, stationId) ==
    LET key == StationKey(stationType, stationId)
        visited == diorama_getVisitedStations(S)
    IN  IF visited.thrown # "none" THEN Throw(S, visited.thrown)
        ELSE IF ~visited.isArray THEN Throw(S, "TypeError")
        ELSE IF includes(visited.items, key) THEN S
        ELSE diorama_updateProgressUI(
                [S EXCEPT !.storage.progress = ArrayText(push(visited.items, key))])

\* worldFails: new DioramaWorld(...) throws
diorama_Bootstrap(store, worldFails) ==
    LET S0 == FreshPage(store) IN
    IF worldFails THEN showInitError(S0)
    ELSE LET S1 == [S0 EXCEPT !.mgr.alive = TRUE]
             S2 == welcomeGlue(S1)
             S3 == diorama_updateProgressUI(S2)
         IN  IF Failed(S3) THEN showInitError(S3)
             ELSE [S3 EXCEPT !.win.api = TRUE]

----------------------------------------------------------------------------
(* Event handlers of the island page *)

\* a Begin handler without its localStorage.setItem
onBeginClickForgetful(S) ==
    [S EXCEPT !.ui.welcomeHidden = TRUE, !.controls = TRUE]

\* beginBtn click listener
onBeginClick(S) ==
    [S EXCEPT !.ui.welcomeHidden = TRUE, !.storage.visited = TRUE, !.controls = TRUE]

\* continueBtn click: the listener added in setupEvents runs first, then the
\* onclick handler startVisit/showSuccess assigned; an exception in the first
\* is reported and does not stop the second
onContinueClick(S) ==
    LET S1 == advanceDialogue(S)
        h == S1.ui.continueBtn.onclick
        S2 == [S1 EXCEPT !.thrown = "none"]
        S3 == CASE h = "advanceDialogue" -> advanceDialogue(S2)
                [] h = "closeDialogue" -> closeDialogue(S2)
                [] h = "completeVisit" -> completeVisit(S2)
                [] OTHER -> S2
    IN  IF Failed(S1) /\ ~Failed(S3) THEN Throw(S3, S1.thrown) ELSE S3

onTimer(S) ==
    LET t == Head(S.timers)
        S1 == [S EXCEPT !.timers = Tail(@)]
    IN  IF t.kind = "showSuccess" THEN showSuccess(S1) ELSE removeWrong(S1, t)

----------------------------------------------------------------------------
(* The state machine *)

Cur == [storage |-> storage, page |-> page, win |-> win, controls |-> controls,
        mgr |-> mgr, ui |-> ui, timers |-> timers, thrown |-> "none"]

DialoguePhase(S) ==
    IF ~S.mgr.isDialogueOpen THEN (IF AnyPopupOpen(S) THEN "Popup" ELSE "Closed")
    ELSE IF S.ui.continueBtn.onclick = "closeDialogue" THEN "AlreadyVisited"
    ELSE IF S.ui.continueBtn.onclick = "completeVisit" THEN "Success"
    ELSE IF S.ui.mathSection = "block" THEN "MathChallenge"
    ELSE "Greeting"

Install(S) ==
    /\ storage' = S.storage
    /\ page' = S.page
    /\ win' = S.win
    /\ controls' = S.controls
    /\ mgr' = S.mgr
    /\ ui' = S.ui
    /\ timers' = S.timers
    /\ thrown' = S.thrown

\* an unloaded page keeps nothing but the durable storage
Unloaded(S) == [FreshPage(S.storage) EXCEPT !.page = "unloaded"]

\* What the model records of a state.  Fields that are dead are dropped: the
\* content of a hidden dialogue box, the step and cabin number of a closed
\* session and the click handler of a hidden popup are all rewritten by
\* startVisit / showMathQuestion / openXxxPopup before anything can read them,
\* and a removeWrong callback whose button is gone or hidden for good does
\* nothing when it fires, so it is not kept.
Observed(S) ==
    LET S1 == IF S.ui.display["dialogue"] = "flex" THEN S
              ELSE [S EXCEPT !.ui.storyText = NoText,
                             !.ui.mathSection = "none",
                             !.ui.continueBtn = FreshUI.continueBtn,
                             !.ui.optionsGrid = FreshUI.optionsGrid,
                             !.mgr.dialogueStep = 0,
                             !.mgr.currentCabinNumber = 0,
                             !.timers = Detach(S.timers)]
    IN  [S1 EXCEPT !.ui.exploreOnclick =
            [p \in Popups |-> IF S1.ui.display[p] = "flex" THEN @[p] ELSE NoVisit],
                   !.timers = SelectSeq(@, LAMBDA t : t.kind = "showSuccess" \/ t.attached)]

\* the step: handler `op` ran on the island page with input `arg` and left S
HandledHere(op, arg, S) ==
    /\ Install(IF S.page = "unloaded" THEN Unloaded(S) ELSE Observed(S))
    /\ lastEvent' = [op |-> op, arg |-> arg, from |-> DialoguePhase(Cur),
                     afterOpen |-> lastEvent.op = "open"]

\* ... and no other page took part
Handled(op, arg, S) == HandledHere(op, arg, S) /\ UNCHANGED worlds

Variants == {"crystal", "diorama"}
NoWorlds == [w \in {} |-> FreshPage(Absent)]

Live == page # "unloaded" /\ mgr.alive
DialogueShown == Live /\ ui.display["dialogue"] = "flex"

\* the page is loaded on one of `stores`; with `beside`, the other two pages
\* are loaded on a copy of the same storage
Loaded(stores, beside) ==
    \E store \in stores, worldFails \in BOOLEAN :
        LET S == Bootstrap(store, worldFails) IN
        /\ storage = S.storage /\ page = S.page /\ win = S.win
        /\ controls = S.controls /\ mgr = S.mgr /\ ui = S.ui
        /\ timers = S.timers /\ thrown = S.thrown
        /\ lastEvent = [op |-> "load", arg |-> "", from |-> "Closed", afterOpen |-> FALSE]
        /\ budget = [opens |-> 0]
        /\ worlds = IF beside
                    THEN [w \in Variants |-> IF w = "crystal"
                                             THEN crystal_Bootstrap(store, worldFails)
                                             ELSE diorama_Bootstrap(store, worldFails)]
                    ELSE NoWorlds

Init == Loaded(InitialStorage, FALSE)
InitStore == Loaded(InitialStoreStorage, FALSE)
InitVariants == Loaded(InitialStoreStorage, TRUE)

Reload ==
    /\ \E worldFails \in BOOLEAN : Handled("load", "", Bootstrap(storage, worldFails))
    /\ UNCHANGED budget

CanvasClick ==
    /\ Live
    /\ \E hit \in setupInteractables \cup {NoHit} :
        LET S == onCanvasClick(Cur, hit)
            opened == S.ui.display # ui.display
        IN  /\ opened => budget.opens < MaxOpens
            /\ Handled(IF opened THEN "open" ELSE "canvasClick",
                       IF hit = NoHit THEN "" ELSE "zone", S)
            /\ budget' = [budget EXCEPT !.opens = IF opened THEN @ + 1 ELSE @]

ContinueClick ==
    /\ DialogueShown /\ ui.continueBtn.display # "none"
    /\ mgr.dialogueStep < MaxStep
    /\ Handled("continue", "", onContinueClick(Cur))
    /\ UNCHANGED budget

CloseClick ==
    /\ DialogueShown
    /\ Handled("close", "", closeDialogue(Cur))
    /\ UNCHANGED budget

OutsideClick ==
    /\ DialogueShown
    /\ Handled("close", "", closeDialogue(Cur))
    /\ UNCHANGED budget

OptionClick ==
    /\ DialogueShown /\ ui.mathSection = "block" /\ ui.optionsGrid.visit # NoVisit
    /\ Len(timers) < MaxTimers
    /\ \E opt \in Options :
        Handled("option", IF OptionCorrect(ui.optionsGrid.visit, opt) THEN "correct" ELSE "wrong",
                handleAnswer(Cur, opt))
    /\ UNCHANGED budget

TimerFires ==
    /\ page # "unloaded" /\ timers # << >>
    /\ Handled("timer", "", onTimer(Cur))
    /\ UNCHANGED budget

EscapeKey ==
    /\ Live
    /\ Handled("escape", "", onEscape(Cur))
    /\ UNCHANGED budget

PopupCloseClick ==
    /\ Live
    /\ \E p \in Popups : ui.display[p] = "flex" /\ Handled("popupClose", "", closePopup(Cur, p))
    /\ UNCHANGED budget

PopupOutsideClick ==
    /\ Live
    /\ \E p \in Popups : ui.display[p] = "flex" /\ Handled("popupClose", "", closePopup(Cur, p))
    /\ UNCHANGED budget

ExploreClick ==
    /\ Live
    /\ \E p \in Popups : ui.display[p] = "flex" /\ Handled("explore", "", exploreOnclick(Cur, p))
    /\ UNCHANGED budget

BeginClick ==
    /\ page # "unloaded" /\ ~ui.welcomeHidden
    /\ Handled("begin", "", onBeginClick(Cur))
    /\ UNCHANGED budget

DismissNotice ==
    /\ page # "unloaded" /\ ui.noticeVisible
    /\ Handled("dismissNotice", "", [Cur EXCEPT !.ui.noticeVisible = FALSE])
    /\ UNCHANGED budget

ApiMarkVisited ==
    /\ page # "unloaded" /\ win.api
    /\ \E c \in ApiCalls :
        Handled("apiMarkVisited", StationKey(c[1], c[2]), markStationVisited(Cur, c[1], c[2]))
    /\ UNCHANGED budget

ApiUpdateUI ==
    /\ page # "unloaded" /\ win.api
    /\ Handled("apiUpdateUI", "", updateProgressUI(Cur))
    /\ UNCHANGED budget

\* One page session of the interaction manager, from its load on
Next ==
    \/ CanvasClick
    \/ ContinueClick
    \/ CloseClick
    \/ OutsideClick
    \/ OptionClick
    \/ TimerFires
    \/ EscapeKey
    \/ PopupCloseClick
    \/ PopupOutsideClick
    \/ ExploreClick
    \/ BeginClick

Spec == Init /\ [][Next]_vars

\* The Progress Store driven through window.metisPrairieProgress, across page loads
NextStore ==
    \/ Reload
    \/ ApiMarkVisited
    \/ ApiUpdateUI
    \/ DismissNotice
    \/ BeginClick

SpecStore == InitStore /\ [][NextStore]_vars

\* a call through window.metisPrairieProgress of a page: a TypeError when the
\* page's script never got to install it
ViaApi(S, result) == IF S.win.api THEN result ELSE Throw(S, "TypeError")
Called(S) == [S EXCEPT !.thrown = "none"]

VariantsMarkVisited ==
    /\ page # "unloaded" /\ win.api
    /\ \E c \in ApiCalls :
        /\ HandledHere("apiMarkVisited", StationKey(c[1], c[2]), markStationVisited(Cur, c[1], c[2]))
        /\ worlds' = [w \in Variants |->
                LET S == Called(worlds[w]) IN
                ViaApi(S, IF w = "crystal" THEN crystal_markStationVisited(S, c[1], c[2])
                                           ELSE diorama_markStationVisited(S, c[1], c[2]))]
    /\ UNCHANGED budget

\* getVisited changes nothing; what it returns is read off the state
VariantsGetVisited ==
    /\ page # "unloaded" /\ win.api
    /\ HandledHere("apiGetVisited", "", Throw(Cur, getVisitedStations(Cur).thrown))
    /\ worlds' = [w \in Variants |->
            LET S == Called(worlds[w]) IN
            ViaApi(S, Throw(S, IF w = "crystal" THEN crystal_getVisitedStations(S).thrown
                                               ELSE diorama_getVisitedStations(S).thrown))]
    /\ UNCHANGED budget

VariantsUpdateUI ==
    /\ page # "unloaded" /\ win.api
    /\ HandledHere("apiUpdateUI", "", updateProgressUI(Cur))
    /\ worlds' = [w \in Variants |->
            LET S == Called(worlds[w]) IN
            ViaApi(S, IF w = "crystal" THEN crystal_updateProgressUI(S)
                                       ELSE diorama_updateProgressUI(S))]
    /\ UNCHANGED budget

\* The three pages given the same storage and the same Progress Store calls
NextVariants ==
    \/ VariantsMarkVisited
    \/ VariantsGetVisited
    \/ VariantsUpdateUI

SpecVariants == InitVariants /\ [][NextVariants]_vars

----------------------------------------------------------------------------
(* Properties *)

\* getVisited as the specification means it: the keys recorded so far
VisitedSet == storage.progress.items
CabinKeys(store) == { k \in Cabins : includes(store.progress.items, StationKey("cabin", k + 1)) }
OpenOverlays == { o \in Overlays : ui.display[o] = "flex" }
CloseOps == {"close", "escape", "popupClose"}
Acknowledged == lastEvent.op = "continue" /\ lastEvent.from = "Success"

\* C1: when the Cabin dialogue was closed during the answer delay, the
\* deferred showSuccess callback that fires afterwards raises no error and
\* changes nothing of the dialogue, the manager, the controls or the store.
C1_DeferredCallbackIsNoOpAfterClose ==
    [][ (lastEvent'.op = "timer" /\ ~mgr.isDialogueOpen)
            => /\ thrown' = "none"
               /\ UNCHANGED << mgr, ui, controls, storage >> ]_vars

\* C2: closing the Cabin dialogue by the close control, an outside click or
\* Escape, from whatever phase, leaves the VisitedSet and completedVisits as
\* they were; a cabin key or a completed visit is only ever added by the
\* continue click that acknowledges Success.
C2_CloseRecordsNothing ==
    [][ page' # "unloaded" =>
          /\ lastEvent'.op \in {"close", "escape"}
                => storage' = storage /\ mgr'.completedVisits = mgr.completedVisits
          /\ (CabinKeys(storage') # CabinKeys(storage) \/ mgr'.completedVisits # mgr.completedVisits)
                => lastEvent'.op = "continue" /\ lastEvent'.from = "Success" ]_vars

\* a dialogue in Success was closed without acknowledgement, nothing credited
C2_Witness ==
    /\ lastEvent.op \in {"close", "escape"}
    /\ lastEvent.from = "Success"
    /\ mgr.completedVisits = {}
    /\ CabinKeys(storage) = {}

\* C3: in every reachable state at most one of the eight overlays (the Cabin
\* dialogue and the seven popups) is open, and while a dialogue session is
\* open no step replaces its visit by another one.
C3_AtMostOneOverlay ==
    /\ [](Cardinality(OpenOverlays) <= 1)
    /\ [][ (mgr.isDialogueOpen /\ page' # "unloaded")
              => mgr'.currentVisit \in {mgr.currentVisit, NoVisit} ]_vars

\* a zone was clicked while a popup was open, and that popup is still the only overlay
C3_Witness ==
    /\ lastEvent.op = "canvasClick" /\ lastEvent.arg = "zone"
    /\ lastEvent.from = "Popup"
    /\ Cardinality(OpenOverlays \cap Popups) = 1
    /\ Cardinality(OpenOverlays) = 1

\* C4: after every close transition - close control, outside click, Escape,
\* a popup's close, the AlreadyVisited leave and the Success acknowledgement,
\* error paths included - the camera controls are enabled.
C4_ControlsEnabledAfterClose ==
    (Live /\ (lastEvent.op \in CloseOps
                \/ (lastEvent.op = "continue" /\ lastEvent.from \in {"AlreadyVisited", "Success"})))
        => controls = TRUE

\* C5: an open directly followed by a close leaves the controls enabled, every
\* overlay hidden and the VisitedSet (and completedVisits) as before the open.
C5_OpenThenCloseChangesNothing ==
    [][ /\ lastEvent'.op = "open"
            => storage' = storage /\ mgr'.completedVisits = mgr.completedVisits
        /\ (lastEvent.op = "open" /\ lastEvent'.op \in CloseOps)
            => /\ controls' = TRUE
               /\ \A o \in Overlays : ui'.display[o] = "none"
               /\ ~mgr'.isDialogueOpen
               /\ storage' = storage
               /\ mgr'.completedVisits = mgr.completedVisits ]_vars

\* an overlay was opened and closed by the very next event
C5_Witness ==
    /\ lastEvent.afterOpen /\ lastEvent.op \in CloseOps
    /\ OpenOverlays = {}
    /\ controls = TRUE

\* C6: after markVisited(category, localId) the VisitedSet holds the key
\* exactly once, and a call for a key already present changes neither the
\* stored value nor the published progress.
C6_MarkVisitedIdempotent ==
    /\ [](lastEvent.op = "apiMarkVisited" => CopiesIn(lastEvent.arg, VisitedSet) = 1)
    /\ [][ (lastEvent'.op = "apiMarkVisited" /\ includes(VisitedSet, lastEvent'.arg))
              => /\ storage' = storage
                 /\ ui'.progressBar = ui.progressBar
                 /\ ui'.progressCount = ui.progressCount ]_vars

\* C7: the acknowledgement that ends a Cabin flow leaves the dialogue Closed
\* with the controls enabled, and every cabin k acknowledged in this session
\* has its key cabin-(k+1) in the VisitedSet.
C7_FlowEndsRecorded ==
    Live =>
      /\ Acknowledged => ~mgr.isDialogueOpen /\ mgr.currentVisit = NoVisit /\ controls = TRUE
      /\ \A k \in mgr.completedVisits : includes(VisitedSet, StationKey("cabin", k + 1))

\* C8: the Progress Store fails open: whatever the stored value (absent,
\* unreadable, corrupt), a load whose scene was built shows no error, installs
\* the store and publishes the size of the set read, and a markVisited raises
\* nothing and leaves its key recorded.
C8_StoreFailsOpen ==
    /\ (lastEvent.op = "load" /\ mgr.alive)
          => /\ page = "ok" /\ ~ui.errorDiv /\ win.api
             /\ ui.progressCount = length(VisitedSet)
    /\ lastEvent.op = "apiMarkVisited"
          => thrown = "none" /\ includes(VisitedSet, lastEvent.arg)

\* C9: in a page session the completion notice is shown at most once; it has
\* been shown as soon as the page holds a VisitedSet of TOTAL_STATIONS keys,
\* and never before.
C9_CompletionShownOnce ==
    /\ ui.noticesShown <= 1
    /\ (page = "ok" /\ storage.progress.kind = "array" /\ length(VisitedSet) >= TOTAL_STATIONS)
          => ui.noticesShown = 1 /\ win.completionShown
    /\ ui.noticesShown = 1 => length(VisitedSet) >= TOTAL_STATIONS
    /\ ui.noticeVisible => ui.noticesShown = 1

\* markVisited was called again after the notice was shown and dismissed
C9_Witness ==
    /\ lastEvent.op = "apiMarkVisited"
    /\ length(VisitedSet) >= TOTAL_STATIONS
    /\ ui.noticesShown = 1
    /\ ~ui.noticeVisible

\* C10: a canvas click while the Cabin dialogue is open or a popup is visible
\* changes nothing: no visit starts, no popup opens.
C10_GatedCanvasClickIsNoOp ==
    [][ (lastEvent'.op \in {"canvasClick", "open"} /\ (mgr.isDialogueOpen \/ AnyPopupOpen(Cur)))
            => UNCHANGED << storage, page, win, controls, mgr, ui, timers >> ]_vars

\* a zone was clicked while the Cabin dialogue was in its MathChallenge
C10_Witness ==
    /\ lastEvent.op = "canvasClick" /\ lastEvent.arg = "zone"
    /\ lastEvent.from = "MathChallenge"
    /\ mgr.isDialogueOpen

WelcomeBack == Line("welcomeBack", NoVisit, 0)

\* C11: a start(k) for a cabin k of completedVisits shows the welcome-back
\* line with the math section hidden and "Leave" as its only action, not
\* greeting line 0; one activation of that action returns to Closed and
\* credits nothing.
C11_CompletedCabinShowsWelcomeBack ==
    /\ (lastEvent.op = "open" /\ mgr.isDialogueOpen /\ mgr.currentVisit \in mgr.completedVisits)
          => /\ ui.storyText = WelcomeBack
             /\ ui.continueBtn = [display |-> "block", onclick |-> "closeDialogue", text |-> "Leave"]
             /\ ui.mathSection = "none"
             /\ DialoguePhase(Cur) = "AlreadyVisited"
    /\ (lastEvent.op = "continue" /\ lastEvent.from = "AlreadyVisited")
          => ~mgr.isDialogueOpen /\ OpenOverlays = {} /\ thrown = "none"

\* a completed cabin was opened again
C11_Witness ==
    /\ lastEvent.op = "open"
    /\ mgr.isDialogueOpen /\ mgr.currentVisit \in mgr.completedVisits
    /\ ui.storyText = WelcomeBack

\* C12: selecting a wrong option leaves the session in MathChallenge with its
\* question answerable, records no key and completes no visit; the delayed
\* callback of a shown option clears its "wrong" mark; in MathChallenge the
\* rendered options are always those of the visit in progress.
C12_WrongAnswerRetry ==
    /\ [][ (lastEvent'.op = "option" /\ lastEvent'.arg = "wrong"
               /\ DialoguePhase(Cur) = "MathChallenge")
              => /\ DialoguePhase(Cur)' = "MathChallenge"
                 /\ storage' = storage
                 /\ mgr' = mgr
                 /\ ui'.optionsGrid.visit = ui.optionsGrid.visit
                 /\ thrown' = "none" ]_vars
    /\ [][ (lastEvent'.op = "timer" /\ mgr.isDialogueOpen /\ timers # << >>
              /\ Head(timers).kind = "removeWrong" /\ Head(timers).attached)
              => /\ Head(timers).opt \notin ui'.optionsGrid.marked
                 /\ DialoguePhase(Cur)' = DialoguePhase(Cur) ]_vars
    /\ [](DialoguePhase(Cur) = "MathChallenge" => ui.optionsGrid.visit = mgr.currentVisit)

\* the delay of a wrong answer has run out and the question is still there, unmarked
C12_Witness ==
    /\ lastEvent.op = "timer" /\ lastEvent.from = "MathChallenge"
    /\ DialoguePhase(Cur) = "MathChallenge"
    /\ ui.optionsGrid.marked = {}
    /\ timers = << >>
    /\ VisitedSet = EmptyBag /\ mgr.completedVisits = {}

\* C13: one Escape or one activation of an overlay's close control, from any
\* open state, reaches Closed: every overlay hidden, isDialogueOpen false, no
\* current visit, controls enabled.
C13_CloseReachesClosed ==
    (Live /\ lastEvent.op \in CloseOps)
        => /\ OpenOverlays = {}
           /\ ~mgr.isDialogueOpen
           /\ mgr.currentVisit = NoVisit
           /\ controls = TRUE
           /\ thrown = "none"

\* Escape was pressed during the answer delay
C13_Witness ==
    /\ lastEvent.op = "escape" /\ lastEvent.from = "MathChallenge"
    /\ timers # << >>
    /\ OpenOverlays = {}

PopupKeys(store) == BagToSet(store.progress.items) \ { StationKey("cabin", k + 1) : k \in Cabins }

\* C14: activating the action control of an open popup records the key
\* "{category}-{localId}" of that popup's station and then leaves the page;
\* no other step adds a popup station's key, so a popup that was only opened
\* records nothing.
C14_ExploreRecordsThenNavigates ==
    [][ /\ lastEvent'.op = "explore"
            => /\ page' = "unloaded"
               /\ \A p \in Popups : ui.display[p] = "flex"
                     => includes(storage'.progress.items, StationKey(p, ui.exploreOnclick[p]))
        /\ PopupKeys(storage') # PopupKeys(storage) => lastEvent'.op = "explore" ]_vars

\* C15: a canvas click that hits no zone opens nothing, raises nothing, and
\* leaves isDialogueOpen, the current visit, the controls, completedVisits
\* and the VisitedSet (and everything else of the page) unchanged.
C15_NoHitIsNoOp ==
    [][ (lastEvent'.op \in {"canvasClick", "open"} /\ lastEvent'.arg = "")
            => /\ UNCHANGED << storage, page, win, controls, mgr, ui, timers >>
               /\ thrown' = "none" ]_vars

\* a click next to the zones while nothing is open (the gate is passed, the ray misses)
C15_Witness ==
    /\ lastEvent.op = "canvasClick" /\ lastEvent.arg = ""
    /\ lastEvent.from = "Closed"
    /\ OpenOverlays = {}
    /\ thrown = "none"

\* C16: once the bootstrap block has failed and the error message is shown,
\* the session does not proceed: no overlay is open, no dialogue session
\* exists, and the store is the one the page was loaded with.
C16_FailedInitStops ==
    ui.errorDiv => /\ page = "error"
                   /\ OpenOverlays = {}
                   /\ ~mgr.isDialogueOpen
                   /\ budget.opens = 0

\* C17: the VisitedSet only grows: every key held by the durable store before
\* a step is held after it.
C17_VisitedSetMonotone ==
    [][ storage.progress.items \sqsubseteq storage'.progress.items ]_vars

\* two cabins were acknowledged one after the other and both keys are stored
C17_Witness ==
    /\ Acknowledged
    /\ Cardinality(mgr.completedVisits) = 2
    /\ \A k \in mgr.completedVisits : includes(VisitedSet, StationKey("cabin", k + 1))

\* C18: a load that builds the scene shows the welcome modal exactly when the
\* first-visit flag is absent; Begin sets the flag, hides the modal and enables
\* the controls; no step clears the flag.
C18_WelcomeModalFollowsFlag ==
    /\ []((lastEvent.op = "load" /\ mgr.alive) => (ui.welcomeHidden <=> storage.visited))
    /\ [](lastEvent.op = "begin" => storage.visited /\ ui.welcomeHidden /\ controls = TRUE)
    /\ [][ storage.visited => storage'.visited ]_vars

\* Begin was activated on a first visit
C18_Witness ==
    /\ lastEvent.op = "begin"
    /\ storage.visited /\ ui.welcomeHidden /\ controls = TRUE

\* C19: in Greeting(i) with i+1 < len(greetings) one activation of the
\* continue control leads to Greeting(i+1): the step grows by exactly 1 and
\* line i+1 is displayed; MathChallenge is entered only by an activation made
\* while the last greeting line is displayed.
C19_ContinueAdvancesOneLine ==
    [][ (lastEvent'.op = "continue" /\ DialoguePhase(Cur) = "Greeting")
          => /\ mgr.dialogueStep + 1 < GreetingLen(mgr.currentVisit)
                  => /\ DialoguePhase(Cur)' = "Greeting"
                     /\ mgr'.dialogueStep = mgr.dialogueStep + 1
                     /\ ui'.storyText = Line("greeting", mgr.currentVisit, mgr.dialogueStep + 1)
             /\ DialoguePhase(Cur)' = "MathChallenge"
                  => mgr.dialogueStep = GreetingLen(mgr.currentVisit) - 1 ]_vars

C21_PublishedProgressMatchesStore ==
    (mgr.alive /\ lastEvent.op \in {"load", "apiMarkVisited"})
        => /\ ui.progressCount = length(VisitedSet)
           /\ ui.progressBar = << length(VisitedSet) * 100, TOTAL_STATIONS >>

\* C22: while a dialogue session is open, dialogueStep is an index bounded by
\* the greeting of the current visit: 0 <= dialogueStep <= len(greetings).
C22_StepWithinGreeting ==
    mgr.isDialogueOpen
        => /\ 0 <= mgr.dialogueStep
           /\ mgr.dialogueStep <= GreetingLen(mgr.currentVisit)

\* C23: the keys the registered zones can record are exactly TOTAL_STATIONS
\* many, so a page holding all of them in the VisitedSet has shown the
\* completion notice.
C23_CompletionReachable ==
    (page = "ok" /\ storage.progress.kind = "array"
       /\ \A key \in Range(RegistryKeys) : includes(VisitedSet, key))
        => /\ length(VisitedSet) >= TOTAL_STATIONS
           /\ ui.progressBar = << TOTAL_STATIONS * 100, TOTAL_STATIONS >>
           /\ win.completionShown /\ ui.noticesShown = 1

\* the rendered options are those of the current visit and its correct one was selected
CorrectAnswerGiven ==
    /\ mgr.currentVisit # NoVisit
    /\ ui.optionsGrid.visit = mgr.currentVisit
    /\ \E o \in ui.optionsGrid.marked : OptionCorrect(mgr.currentVisit, o)

\* C24: a visit enters Success, and a cabin key is recorded, only in a
\* session in which the correct option of that visit was selected.
C24_SuccessOnlyAfterCorrectAnswer ==
    [][ /\ (DialoguePhase(Cur)' = "Success" /\ DialoguePhase(Cur) # "Success")
              => CorrectAnswerGiven
        /\ CabinKeys(storage') # CabinKeys(storage) => CorrectAnswerGiven ]_vars

\* C25: while the first-visit welcome modal is shown, the camera controls
\* stay disabled, whatever events occur other than Begin.
C25_ControlsOffUnderWelcomeModal ==
    (mgr.alive /\ ~ui.welcomeHidden) => controls = FALSE

\* C26: in every reachable state, if the Cabin dialogue or one of the seven
\* popups is open, the camera controls are disabled.
C26_ControlsOffWhileOverlayOpen ==
    (Live /\ OpenOverlays # {}) => controls = FALSE

\* C27: the three parts of a dialogue session agree in every reachable state:
\* isDialogueOpen is set iff a current visit is set iff the dialogue overlay
\* is displayed.
C27_SessionPartsAgree ==
    /\ mgr.isDialogueOpen <=> mgr.currentVisit # NoVisit
    /\ mgr.isDialogueOpen <=> ui.display["dialogue"] = "flex"

\* an acknowledgement that threw left the session open, in all three parts
C27_Witness ==
    /\ Acknowledged /\ thrown = "TypeError"
    /\ mgr.isDialogueOpen
    /\ mgr.currentVisit # NoVisit
    /\ ui.display["dialogue"] = "flex"

ProgressView(S) ==
    [visited |-> S.storage.progress.items,
     count |-> S.ui.progressCount,
     bar |-> S.ui.progressBar,
     notices |-> S.ui.noticesShown,
     raised |-> S.thrown]

\* C29: given the same initial storage and the same sequence of markVisited /
\* getVisited / updateUI calls, the Progress Stores of the island, crystal
\* garden and diorama pages hold the same durable VisitedSet, return the same
\* getVisited value, publish the same progress count and show the completion
\* notice the same number of times.
C29_VariantsEquivalent ==
    \A w \in DOMAIN worlds :
        /\ ProgressView(worlds[w]) = ProgressView([Cur EXCEPT !.thrown = thrown])
        /\ worlds[w].storage.progress = storage.progress
        /\ (IF w = "crystal" THEN crystal_getVisitedStations(worlds[w])
                              ELSE diorama_getVisitedStations(worlds[w]))
              = getVisitedStations(Cur)

====
